---- MODULE Spec2Model ----
(***************************************************************************)
(* Recipe API: the recipe serializer (app/recipe/serializers.py) over the  *)
(* relational store it writes to.  The store holds the Recipe table, the   *)
(* Tag and Ingredient tables and the two many-to-many through tables.     *)
(***************************************************************************)
EXTENDS Integers, Sequences, FiniteSets, TLC

\* ---------------------------------------------------------------- bounds
Users == {"u1", "u2"}
Names == {"a", "b"}
Titles == {"t1", "t2"}
Links == {"l1"}
MaxLen == 2
MaxRequests == 3

\* ------------------------------------------------------------ vocabulary
\* The two nested relations of RecipeSerializer, by their field names.
Kinds == {"tags", "ingredient"}

\* Keys a client may put in a recipe payload.
Keys == {"title", "link", "tags", "ingredient", "user"}

\* RecipeSerializer.Meta.fields without the read-only 'id'.
WritableFields == {"title", "link", "tags", "ingredient"}

\* Recipe columns the serializer writes with setattr.
ScalarFields == {"title", "link"}

\* Python's None and a present value, as a sequence of length 0 or 1.
None == << >>
Some(x) == << x >>
Val(o) == o[1]

NameLists == UNION {[1..n -> Names] : n \in 0..MaxLen}

VARIABLES
    db,         \* the store
    pc,         \* "idle", or "done" while a response waits for its client
    request,    \* the request answered last
    response,   \* its response
    pre,        \* the store as that request found it
    nreq,       \* requests received so far
    creator,    \* recipe id -> the user whose POST created it
    w           \* per server worker, the request it is carrying out

vars == << db, pc, request, response, pre, nreq, creator, w >>


\* ------------------------------------------------------------- the store
\* Autoincrement sequences, one per table.
Tables == {"recipe"} \cup Kinds

EmptyDb ==
    [ recipe |-> {},
      rows   |-> [k \in Kinds |-> {}],
      m2m    |-> [k \in Kinds |-> {}],
      seq    |-> [t \in Tables |-> 0] ]

RecipeIds(d) == {r.id : r \in d.recipe}
RecipeById(d, rid) == CHOOSE r \in d.recipe : r.id = rid

\* recipe.tags.all() / recipe.ingredient.all(): the ids the through table holds.
Related(d, kind, rid) == {a[2] : a \in {x \in d.m2m[kind] : x[1] = rid}}
RowById(d, kind, oid) == CHOOSE r \in d.rows[kind] : r.id = oid

\* The lookup that never finds a row.
LookupNone(d, kind, user, name) == {}

\* The lookup without its user filter.
LookupAnyUser(d, kind, user, name) ==
    {r \in d.rows[kind] : r.name = name}

\* Tag.objects.filter(user=..., name=...)
Lookup(d, kind, user, name) ==
    {r \in d.rows[kind] : r.user = user /\ r.name = name}

\* The storage layer's uniqueness constraint on (user, name).
UniqueViolation(d, kind, user, name) ==
    \E r \in d.rows[kind] : r.user = user /\ r.name = name

\* INSERT of a Tag / Ingredient row under a fresh id of the table's sequence;
\* the constraint refuses it with an IntegrityError.
InsertRow(d, kind, user, name) ==
    LET oid == d.seq[kind] + 1
    IN  IF UniqueViolation(d, kind, user, name)
        THEN [db |-> d, obj |-> 0, ok |-> FALSE]
        ELSE [db |-> [d EXCEPT !.seq[kind] = oid,
                               !.rows[kind] = @ \cup
                                 {[id |-> oid, user |-> user, name |-> name]}],
              obj |-> oid, ok |-> TRUE]

\* Manager.create in the place of get_or_create.
AlwaysCreate(d, kind, user, name) == InsertRow(d, kind, user, name)

\* Manager.get_or_create(user=auth_user, **item): get, else create, and on
\* the insert's IntegrityError get again.
get_or_create(d, kind, user, name) ==
    LET found == Lookup(d, kind, user, name)
    IN  IF Cardinality(found) = 1
        THEN [db |-> d, obj |-> (CHOOSE r \in found : TRUE).id, ok |-> TRUE]
        ELSE IF found # {}
        THEN [db |-> d, obj |-> 0, ok |-> FALSE]   \* MultipleObjectsReturned
        ELSE InsertRow(d, kind, user, name)

\* The loop without its add.
AddForgotten(d, kind, rid, oid) == d

\* recipe.<kind>.add(obj): one through row per (recipe, obj).
m2m_add(d, kind, rid, oid) ==
    [d EXCEPT !.m2m[kind] = @ \cup {<< rid, oid >>}]

\* The update without its clear.
ClearForgotten(d, kind, rid) == d

\* recipe.<kind>.all().delete() in the place of clear(): the rows go too.
ClearDeletesRows(d, kind, rid) ==
    LET gone == {a[2] : a \in {x \in d.m2m[kind] : x[1] = rid}}
    IN  [d EXCEPT !.m2m[kind] = {a \in @ : a[2] \notin gone},
                  !.rows[kind] = {r \in @ : r.id \notin gone}]

\* recipe.<kind>.clear()
m2m_clear(d, kind, rid) ==
    [d EXCEPT !.m2m[kind] = {a \in @ : a[1] # rid}]

\* -------------------------------------------------------- the serializer
\* The loop of _get_or_create_tags / _get_or_create_ingredients: for each
\* item, get_or_create(user = auth_user, **item), then add it to the recipe.
\* An exception leaves the loop with what was written so far.
RECURSIVE GetOrCreateLoop(_, _, _, _, _)
GetOrCreateLoop(d, kind, auth_user, items, rid) ==
    IF items = << >> THEN [db |-> d, ok |-> TRUE]
    ELSE LET g == get_or_create(d, kind, auth_user, Head(items))
         IN  IF ~g.ok THEN [db |-> g.db, ok |-> FALSE]
             ELSE GetOrCreateLoop(m2m_add(g.db, kind, rid, g.obj), kind,
                                  auth_user, Tail(items), rid)

_get_or_create_tags(d, auth_user, tags, rid) ==
    GetOrCreateLoop(d, "tags", auth_user, tags, rid)

_get_or_create_ingredients(d, auth_user, ingredients, rid) ==
    GetOrCreateLoop(d, "ingredient", auth_user, ingredients, rid)

\* dict.pop(key, default), as an optional value.
Pop(vd, key, default) ==
    IF key \in vd.keys THEN Some(vd[key]) ELSE default

\* What is left of validated_data after the two pops.
Rest(vd) == vd.keys \ Kinds

\* Recipe.objects.create(**validated_data): columns the payload does not
\* give take the model's default.
RecipeObjectsCreate(d, user, vd) ==
    LET rid == d.seq["recipe"] + 1
        row == [id    |-> rid,
                user  |-> user,            \* serializer.save(user = request.user)
                title |-> IF "title" \in Rest(vd) THEN vd.title ELSE "",
                link  |-> IF "link" \in Rest(vd) THEN vd.link ELSE ""]
    IN  [db  |-> [d EXCEPT !.seq["recipe"] = rid, !.recipe = @ \cup {row}],
         obj |-> rid]

\* RecipeSerializer.create
create(d, auth_user, vd) ==
    LET tags       == Val(Pop(vd, "tags", Some(<< >>)))
        ingredient == Val(Pop(vd, "ingredient", Some(<< >>)))
        c  == RecipeObjectsCreate(d, auth_user, vd)
        t  == _get_or_create_tags(c.db, auth_user, tags, c.obj)
        i  == _get_or_create_ingredients(t.db, auth_user, ingredient, c.obj)
    IN  IF ~t.ok THEN [db |-> t.db, obj |-> c.obj, ok |-> FALSE]
        ELSE [db |-> i.db, obj |-> c.obj, ok |-> i.ok]

\* for attr, value in validated_data.items(): setattr(instance, attr, value);
\* instance.save(): every column of the row is written from the instance.
SaveInstance(d, instance, vd) ==
    LET new == [instance EXCEPT
                  !.title = IF "title" \in Rest(vd) THEN vd.title ELSE @,
                  !.link  = IF "link" \in Rest(vd) THEN vd.link ELSE @,
                  !.user  = IF "user" \in Rest(vd) THEN vd.user ELSE @]
    IN  [d EXCEPT !.recipe = {r \in @ : r.id # instance.id} \cup {new}]

\* The same for the instance as the store holds it.
SetAttrsAndSave(d, rid, vd) == SaveInstance(d, RecipeById(d, rid), vd)

\* RecipeSerializer.update
update(d, auth_user, rid, vd) ==
    LET tags       == Pop(vd, "tags", Some(<< >>))
        ingredient == Pop(vd, "ingredient", Some(<< >>))
        t == IF tags # None
             THEN _get_or_create_tags(m2m_clear(d, "tags", rid),
                                      auth_user, Val(tags), rid)
             ELSE [db |-> d, ok |-> TRUE]
        i == IF ~t.ok THEN t
             ELSE IF ingredient # None
             THEN _get_or_create_ingredients(m2m_clear(t.db, "ingredient", rid),
                                             auth_user, Val(ingredient), rid)
             ELSE t
    IN  IF ~i.ok THEN i
        ELSE [db |-> SetAttrsAndSave(i.db, rid, vd), ok |-> TRUE]

\* Meta.fields with 'user' among them.
UserWritable(payload) ==
    [payload EXCEPT !.keys = @ \cap (WritableFields \cup {"user"})]

\* Serializer validation: only the declared writable fields pass into
\* validated_data; anything else in the payload is dropped.
validated_data(payload) ==
    [payload EXCEPT !.keys = @ \cap WritableFields]

\* is_valid(): every required field is there unless the update is partial.
is_valid(payload, partial) ==
    partial \/ "title" \in payload.keys


\* ------------------------------------------------------------ the inputs
NoPayload ==
    [keys |-> {}, title |-> "", link |-> "", tags |-> << >>,
     ingredient |-> << >>, user |-> ""]

\* A payload with the scalar keys given (a value "" stands for no key).
ScalarPayload(title, link, user) ==
    [NoPayload EXCEPT
       !.keys  = {k \in {"title"} : title # ""} \cup {k \in {"link"} : link # ""}
                 \cup {k \in {"user"} : user # ""},
       !.title = title, !.link = link, !.user = user]

\* The payload p with the nested list l under the key kind.
WithList(p, kind, l) == [p EXCEPT !.keys = @ \cup {kind}, ![kind] = l]

\* The payloads of POST /recipes/: a title and at most one nested list, and
\* the empty payload, which lacks the required title.
\* The lists of at most one name.
ShortLists == {<< >>} \cup {<< n >> : n \in Names}

CreatePayloads ==
    LET titled == ScalarPayload("t1", "", "")
    IN  {NoPayload, titled}
        \cup {WithList(titled, "tags", l) : l \in NameLists}
        \cup {WithList(titled, "ingredient", l) : l \in ShortLists}

\* The payloads of PATCH /recipes/{id}/: a title or one nested list.
PatchPayloads ==
    {ScalarPayload("t1", "", "")}
        \cup {WithList(NoPayload, "tags", l) : l \in NameLists}
        \cup {WithList(NoPayload, "ingredient", l) : l \in ShortLists}

\* The payloads of the endpoint checks: a title and at most one tag or
\* ingredient on POST, any choice of scalar keys and a user key on PATCH/PUT.
ApiCreatePayloads ==
    LET titled == ScalarPayload("t1", "", "")
    IN  {titled} \cup {WithList(titled, k, << n >>) : k \in Kinds, n \in Names}

ApiUpdatePayloads ==
    {ScalarPayload(t, l, u) :
        t \in {"", "t2"}, l \in {""} \cup Links, u \in {""} \cup Users}

NoRequest ==
    [op |-> "none", kind |-> "recipe", user |-> "", id |-> 0,
     partial |-> FALSE, payload |-> NoPayload, name |-> "",
     filter |-> [tags |-> {}, ingredient |-> {}], assigned_only |-> FALSE]

Request(op, kind, user, id) ==
    [NoRequest EXCEPT !.op = op, !.kind = kind, !.user = user, !.id = id]

\* What a response shows: the ids of the recipes, tags and ingredients in it,
\* and for a list the number of its items.
NoBody == [recipe |-> {}, tags |-> {}, ingredient |-> {}, len |-> 0]

NoResponse == [status |-> 0, id |-> 0, body |-> NoBody]

Status(code) == [NoResponse EXCEPT !.status = code]

\* The server's workers, and a worker with no request.
Workers == {"w1", "w2"}

IdleWorker ==
    [pc |-> "idle", op |-> "none", user |-> "", vd |-> NoPayload, rid |-> 0,
     instance |-> [id |-> 0, user |-> "", title |-> "", link |-> ""],
     kind |-> "tags", items |-> << >>, obj |-> 0, status |-> 0,
     retried |-> FALSE]

\* ------------------------------------------------------------- the views
\* get_queryset of the three viewsets: the rows of the requesting user.
RecipeQueryset(d, user) == {r \in d.recipe : r.user = user}
RelatedQueryset(d, kind, user) == {r \in d.rows[kind] : r.user = user}

\* The ids a user's lists show.
OwnRecipeIds(d, user) == {r.id : r \in RecipeQueryset(d, user)}
OwnRelatedIds(d, kind, user) == {r.id : r \in RelatedQueryset(d, kind, user)}

\* RecipeSerializer(recipes, many=True).data: each recipe with its nested
\* tags and ingredients.
RecipeBody(d, rids) ==
    [recipe     |-> rids,
     tags       |-> UNION {Related(d, "tags", rid) : rid \in rids},
     ingredient |-> UNION {Related(d, "ingredient", rid) : rid \in rids},
     len        |-> Cardinality(rids)]

Answer(req, resp, d) ==
    /\ UNCHANGED w
    /\ nreq' = nreq + 1
    /\ pc' = "done"
    /\ request' = req
    /\ response' = resp
    /\ pre' = db
    /\ db' = d

\* POST /recipes/
RecipeCreate(u, p) ==
    LET req == [Request("create", "recipe", u, 0) EXCEPT !.payload = p]
        r   == create(db, u, validated_data(p))
    IN  IF ~is_valid(p, FALSE)
        THEN Answer(req, Status(400), db) /\ UNCHANGED creator
        ELSE /\ Answer(req, [status |-> IF r.ok THEN 201 ELSE 500,
                             id |-> r.obj,
                             body |-> RecipeBody(r.db, {r.obj})], r.db)
             /\ creator' = [rid \in DOMAIN creator \cup {r.obj} |->
                               IF rid = r.obj THEN u ELSE creator[rid]]

\* PATCH (partial) or PUT /recipes/{id}/
RecipeUpdate(u, rid, partial, p) ==
    LET req == [Request("update", "recipe", u, rid) EXCEPT
                  !.partial = partial, !.payload = p]
        r   == update(db, u, rid, validated_data(p))
    IN  /\ UNCHANGED creator
        /\ IF rid \notin OwnRecipeIds(db, u)
           THEN Answer(req, Status(404), db)
           ELSE IF ~is_valid(p, partial)
           THEN Answer(req, Status(400), db)
           ELSE Answer(req, [status |-> IF r.ok THEN 200 ELSE 500,
                             id |-> rid,
                             body |-> RecipeBody(r.db, {rid})], r.db)

\* GET /recipes/
RecipeList(u) ==
    /\ UNCHANGED creator
    /\ Answer(Request("list", "recipe", u, 0),
              [status |-> 200, id |-> 0,
               body |-> RecipeBody(db, OwnRecipeIds(db, u))], db)

\* GET /recipes/{id}/
RecipeRetrieve(u, rid) ==
    /\ UNCHANGED creator
    /\ IF rid \notin OwnRecipeIds(db, u)
       THEN Answer(Request("retrieve", "recipe", u, rid), Status(404), db)
       ELSE Answer(Request("retrieve", "recipe", u, rid),
                   [status |-> 200, id |-> rid,
                    body |-> RecipeBody(db, {rid})], db)

\* DELETE /recipes/{id}/: the recipe goes, and its through rows with it.
RecipeDestroy(u, rid) ==
    /\ UNCHANGED creator
    /\ IF rid \notin OwnRecipeIds(db, u)
       THEN Answer(Request("destroy", "recipe", u, rid), Status(404), db)
       ELSE Answer(Request("destroy", "recipe", u, rid), Status(204),
                   [db EXCEPT
                      !.recipe = {r \in @ : r.id # rid},
                      !.m2m = [k \in Kinds |-> {a \in @[k] : a[1] # rid}]])

\* GET /tags/ and GET /ingredients/
RelatedList(k, u) ==
    /\ UNCHANGED creator
    /\ Answer(Request("list", k, u, 0),
              [status |-> 200, id |-> 0,
               body |-> [NoBody EXCEPT
                           ![k] = OwnRelatedIds(db, k, u),
                           !.len = Cardinality(OwnRelatedIds(db, k, u))]], db)

\* GET /tags/{id}/ and GET /ingredients/{id}/
RelatedRetrieve(k, u, oid) ==
    /\ UNCHANGED creator
    /\ IF oid \notin OwnRelatedIds(db, k, u)
       THEN Answer(Request("retrieve", k, u, oid), Status(404), db)
       ELSE Answer(Request("retrieve", k, u, oid),
                   [status |-> 200, id |-> oid,
                    body |-> [NoBody EXCEPT ![k] = {oid}]], db)

\* PATCH /tags/{id}/ and PATCH /ingredients/{id}/: a new name, refused when
\* the user has another row of that name.
RelatedUpdate(k, u, oid, name) ==
    LET req == [Request("update", k, u, oid) EXCEPT !.name = name]
        old == RowById(db, k, oid)
    IN  /\ UNCHANGED creator
        /\ IF oid \notin OwnRelatedIds(db, k, u)
           THEN Answer(req, Status(404), db)
           ELSE IF old.name # name /\ UniqueViolation(db, k, u, name)
           THEN Answer(req, Status(400), db)
           ELSE Answer(req, [status |-> 200, id |-> oid,
                             body |-> [NoBody EXCEPT ![k] = {oid}]],
                       [db EXCEPT !.rows[k] =
                          (@ \ {old}) \cup {[old EXCEPT !.name = name]}])

\* DELETE /tags/{id}/ and DELETE /ingredients/{id}/
RelatedDestroy(k, u, oid) ==
    /\ UNCHANGED creator
    /\ IF oid \notin OwnRelatedIds(db, k, u)
       THEN Answer(Request("destroy", k, u, oid), Status(404), db)
       ELSE Answer(Request("destroy", k, u, oid), Status(204),
                   [db EXCEPT !.rows[k] = {r \in @ : r.id # oid},
                              !.m2m[k] = {a \in @ : a[2] # oid}])

\* The rows of a query as they come from its joins.
NoDistinct(rows) == rows

\* queryset.distinct(): one row per object, whatever joined rows matched.
distinct(rows) == {<< x[1] >> : x \in rows}

\* The ids a filter names that a recipe holds; without the parameter there
\* is no join, and the recipe gives one row.
Matches(d, kind, rid, ids) ==
    IF ids = {} THEN {0} ELSE Related(d, kind, rid) \cap ids

\* GET /recipes/?tags=..&ingredients=..: the user's recipes joined with the
\* tags and the ingredients the parameters name, then distinct().
RecipeListFiltered(u, tag_ids, ingredient_ids) ==
    LET joined == {<< rid, t, i >> :
                      rid \in OwnRecipeIds(db, u),
                      t \in UNION {Matches(db, "tags", x, tag_ids) :
                                      x \in OwnRecipeIds(db, u)},
                      i \in UNION {Matches(db, "ingredient", x, ingredient_ids) :
                                      x \in OwnRecipeIds(db, u)}}
        rows   == distinct({x \in joined :
                      /\ x[2] \in Matches(db, "tags", x[1], tag_ids)
                      /\ x[3] \in Matches(db, "ingredient", x[1],
                                          ingredient_ids)})
    IN  /\ UNCHANGED creator
        /\ Answer([Request("list", "recipe", u, 0) EXCEPT
                      !.filter = [tags |-> tag_ids,
                                  ingredient |-> ingredient_ids]],
                  [status |-> 200, id |-> 0,
                   body |-> [RecipeBody(db, {x[1] : x \in rows}) EXCEPT
                               !.len = Cardinality(rows)]], db)

\* GET /tags/?assigned_only=1 and GET /ingredients/?assigned_only=1: the
\* user's rows joined with the recipes that hold them, then distinct().
RelatedListAssigned(k, u) ==
    LET rows == distinct({<< a[2], a[1] >> :
                    a \in {x \in db.m2m[k] : x[2] \in OwnRelatedIds(db, k, u)}})
    IN  /\ UNCHANGED creator
        /\ Answer([Request("list", k, u, 0) EXCEPT !.assigned_only = TRUE],
                  [status |-> 200, id |-> 0,
                   body |-> [NoBody EXCEPT ![k] = {x[1] : x \in rows},
                                           !.len = Cardinality(rows)]], db)

\* The client takes the response; the next request may come.
Respond ==
    /\ pc = "done"
    /\ nreq < MaxRequests
    /\ pc' = "idle"
    /\ request' = NoRequest
    /\ response' = NoResponse
    /\ pre' = EmptyDb
    /\ UNCHANGED << db, nreq, creator, w >>

Init ==
    /\ db = EmptyDb
    /\ pc = "idle"
    /\ request = NoRequest
    /\ response = NoResponse
    /\ pre = EmptyDb
    /\ nreq = 0
    /\ creator = << >>
    /\ w = [wk \in Workers |-> IdleWorker]

Idle == pc = "idle" /\ nreq < MaxRequests

Next ==
    \/ Idle /\ \E u \in Users, p \in CreatePayloads : RecipeCreate(u, p)
    \/ Idle /\ \E u \in Users : \E rid \in OwnRecipeIds(db, u),
                  p \in PatchPayloads : RecipeUpdate(u, rid, TRUE, p)
    \/ Respond

Spec == Init /\ [][Next]_vars

\* Every endpoint of the three viewsets, any user asking for any id.
NextApi ==
    \/ Idle /\ \E u \in Users, p \in ApiCreatePayloads : RecipeCreate(u, p)
    \/ Idle /\ \E u \in Users, rid \in 1..db.seq["recipe"], partial \in BOOLEAN,
                  p \in ApiUpdatePayloads : RecipeUpdate(u, rid, partial, p)
    \/ Idle /\ \E u \in Users : RecipeList(u)
    \/ Idle /\ \E u \in Users, rid \in 1..db.seq["recipe"] : RecipeRetrieve(u, rid)
    \/ Idle /\ \E u \in Users, rid \in 1..db.seq["recipe"] : RecipeDestroy(u, rid)
    \/ Idle /\ \E k \in Kinds, u \in Users : RelatedList(k, u)
    \/ Idle /\ \E k \in Kinds, u \in Users :
                  \E oid \in 1..db.seq[k] : RelatedRetrieve(k, u, oid)
    \/ Idle /\ \E k \in Kinds, u \in Users, n \in Names :
                  \E oid \in 1..db.seq[k] : RelatedUpdate(k, u, oid, n)
    \/ Idle /\ \E k \in Kinds, u \in Users :
                  \E oid \in 1..db.seq[k] : RelatedDestroy(k, u, oid)
    \/ Respond

SpecApi == Init /\ [][NextApi]_vars


\* The id lists of a filter parameter: at most n ids of the table's rows.
IdLists(d, kind, n) ==
    {ids \in SUBSET {r.id : r \in d.rows[kind]} : Cardinality(ids) <= n}

\* request.user of a request without credentials.
Anonymous == "anon"

\* No permission class on the view.
AllowAny(u) == TRUE

\* permission_classes = [IsAuthenticated]
IsAuthenticated(u) == u \in Users

\* The view's initial(): without permission the request is answered 401 and
\* the handler does not run.
Guarded(u, op, kind, id, Handler) ==
    IF IsAuthenticated(u) THEN Handler
    ELSE /\ Answer(Request(op, kind, u, id), Status(401), db)
         /\ UNCHANGED creator

Callers == Users \cup {Anonymous}

NextAuth ==
    \/ Idle /\ \E u \in Callers, p \in ApiCreatePayloads :
          Guarded(u, "create", "recipe", 0, RecipeCreate(u, p))
    \/ Idle /\ \E u \in Callers, rid \in 1..db.seq["recipe"],
                  p \in PatchPayloads :
          Guarded(u, "update", "recipe", rid, RecipeUpdate(u, rid, TRUE, p))
    \/ Idle /\ \E u \in Callers : \E tag_ids \in IdLists(db, "tags", 1) :
          Guarded(u, "list", "recipe", 0, RecipeListFiltered(u, tag_ids, {}))
    \/ Idle /\ \E u \in Callers, rid \in 1..db.seq["recipe"] :
          Guarded(u, "retrieve", "recipe", rid, RecipeRetrieve(u, rid))
    \/ Idle /\ \E u \in Callers, rid \in 1..db.seq["recipe"] :
          Guarded(u, "destroy", "recipe", rid, RecipeDestroy(u, rid))
    \/ Idle /\ \E k \in Kinds, u \in Callers :
          Guarded(u, "list", k, 0, RelatedList(k, u))
    \/ Idle /\ \E k \in Kinds, u \in Callers :
          Guarded(u, "list", k, 0, RelatedListAssigned(k, u))
    \/ Idle /\ \E k \in Kinds, u \in Callers : \E oid \in 1..db.seq[k] :
          Guarded(u, "retrieve", k, oid, RelatedRetrieve(k, u, oid))
    \/ Idle /\ \E k \in Kinds, u \in Callers, n \in Names :
          \E oid \in 1..db.seq[k] :
              Guarded(u, "update", k, oid, RelatedUpdate(k, u, oid, n))
    \/ Idle /\ \E k \in Kinds, u \in Callers : \E oid \in 1..db.seq[k] :
          Guarded(u, "destroy", k, oid, RelatedDestroy(k, u, oid))
    \/ Respond

\* Every endpoint, called with and without credentials.
SpecAuth == Init /\ [][NextAuth]_vars

\* The payloads of the filter checks: a title, a tags list and an ingredient
\* list.
FilterCreatePayloads ==
    {WithList(WithList(ScalarPayload("t1", "", ""), "tags", l), "ingredient", m) :
        l \in {<< >>, << "a" >>, << "b" >>, << "a", "b" >>},
        m \in {<< >>, << "a" >>}}

\* A PATCH that takes tags off a recipe.
FilterPatchPayloads ==
    {WithList(NoPayload, "tags", l) : l \in {<< >>, << "a" >>}}

NextFilter ==
    \/ Idle /\ \E u \in Users, p \in FilterCreatePayloads : RecipeCreate(u, p)
    \/ Idle /\ \E u \in Users : \E rid \in OwnRecipeIds(db, u),
                  p \in FilterPatchPayloads : RecipeUpdate(u, rid, TRUE, p)
    \/ Idle /\ \E u \in Users : \E rid \in OwnRecipeIds(db, u) :
                  RecipeDestroy(u, rid)
    \/ Idle /\ \E u \in Users : \E tag_ids \in IdLists(db, "tags", MaxLen),
                  ingredient_ids \in IdLists(db, "ingredient", 1) :
                  RecipeListFiltered(u, tag_ids, ingredient_ids)
    \/ Idle /\ \E k \in Kinds, u \in Users : RelatedListAssigned(k, u)
    \/ Respond

\* The list endpoints with their filter parameters.
SpecFilter == Init /\ [][NextFilter]_vars

\* ------------------------------------------- the serializer, step by step
\* Each ORM call of create() and update() is a statement of its own against
\* the store (no transaction spans them), so the calls of two requests that
\* two workers carry out at the same time interleave.
ConcUsers == {"u1"}

ConcCreatePayloads == ApiCreatePayloads

ConcPatchPayloads ==
    {WithList(NoPayload, k, l) :
        k \in Kinds, l \in ShortLists}

\* Where a worker stands in the serializer.
Running == {"insert_recipe", "clear", "get", "insert", "reget", "add", "save"}

Reraise(d, kind, user, name) == {}

\* After the insert's IntegrityError, get_or_create gets again.
OnIntegrityError(d, kind, user, name) == Lookup(d, kind, user, name)

\* The request is over: the serializer's locals are gone; the request and
\* its response stay on record.
Finish(r, status) ==
    [IdleWorker EXCEPT !.pc = IF status = 500 THEN "failed" ELSE "done",
                       !.status = status, !.op = r.op, !.user = r.user,
                       !.vd = r.vd, !.rid = r.rid, !.retried = r.retried]

\* The worker after the calls for `kind` are through: the ingredient calls
\* follow the tag calls; then create() returns and update() saves.
RECURSIVE Begin(_, _)
AfterKind(r, kind) ==
    IF kind = "tags" THEN Begin(r, "ingredient")
    ELSE IF r.op = "create" THEN Finish(r, 201)
    ELSE [r EXCEPT !.pc = "save"]

\* for item in items: the next get_or_create, or the end of the loop.
Loop(r) ==
    IF r.items = << >> THEN AfterKind(r, r.kind) ELSE [r EXCEPT !.pc = "get"]

\* The calls for `kind`: create() runs the loop over the popped list;
\* update() clears first, unless the popped value is None.
Begin(r, kind) ==
    LET o == Pop(r.vd, kind, Some(<< >>))
    IN  IF r.op = "create"
        THEN Loop([r EXCEPT !.kind = kind, !.items = Val(o)])
        ELSE IF o # None
        THEN [r EXCEPT !.pc = "clear", !.kind = kind, !.items = Val(o)]
        ELSE AfterKind(r, kind)

Step(wk, r, d) ==
    /\ w' = [w EXCEPT ![wk] = r]
    /\ db' = d
    /\ UNCHANGED << pc, request, response, pre, nreq, creator >>

\* A request goes to the first worker that is not carrying one out.
Free(wk) ==
    /\ w[wk].pc \notin Running
    /\ wk = "w2" => w["w1"].pc \in Running

\* A worker takes POST /recipes/.
ReceiveCreate(wk, u, p) ==
    /\ Free(wk)
    /\ nreq < MaxRequests
    /\ is_valid(p, FALSE)
    /\ w' = [w EXCEPT ![wk] = [IdleWorker EXCEPT
                !.pc = "insert_recipe", !.op = "create", !.user = u,
                !.vd = validated_data(p)]]
    /\ nreq' = nreq + 1
    /\ UNCHANGED << db, pc, request, response, creator >>

\* A worker takes PATCH /recipes/{id}/ and loads the instance.
ReceiveUpdate(wk, u, rid, p) ==
    /\ Free(wk)
    /\ nreq < MaxRequests
    /\ rid \in OwnRecipeIds(db, u)
    /\ w' = [w EXCEPT ![wk] = Begin([IdleWorker EXCEPT
                !.op = "update", !.user = u, !.vd = validated_data(p),
                !.rid = rid, !.instance = RecipeById(db, rid)], "tags")]
    /\ nreq' = nreq + 1
    /\ UNCHANGED << db, pc, request, response, creator >>

\* Recipe.objects.create(**validated_data)
InsertRecipe(wk) ==
    LET r == w[wk]
        c == RecipeObjectsCreate(db, r.user, r.vd)
    IN  /\ r.pc = "insert_recipe"
        /\ Step(wk, Begin([r EXCEPT !.rid = c.obj,
                                    !.instance = RecipeById(c.db, c.obj)],
                          "tags"), c.db)

\* instance.tags.clear() / instance.ingredient.clear()
Clear(wk) ==
    LET r == w[wk]
    IN  /\ r.pc = "clear"
        /\ Step(wk, Loop(r), m2m_clear(db, r.kind, r.rid))

\* get_or_create: the get
Get(wk) ==
    LET r == w[wk]
        found == Lookup(db, r.kind, r.user, Head(r.items))
    IN  /\ r.pc = "get"
        /\ IF found = {} THEN Step(wk, [r EXCEPT !.pc = "insert"], db)
           ELSE IF Cardinality(found) = 1
           THEN Step(wk, [r EXCEPT !.pc = "add",
                                   !.obj = (CHOOSE x \in found : TRUE).id], db)
           ELSE Step(wk, Finish(r, 500), db)

\* get_or_create: the create
Insert(wk) ==
    LET r == w[wk]
        i == InsertRow(db, r.kind, r.user, Head(r.items))
    IN  /\ r.pc = "insert"
        /\ IF i.ok THEN Step(wk, [r EXCEPT !.pc = "add", !.obj = i.obj], i.db)
           ELSE Step(wk, [r EXCEPT !.pc = "reget", !.retried = TRUE], db)

\* get_or_create: the get after the IntegrityError
Reget(wk) ==
    LET r == w[wk]
        found == OnIntegrityError(db, r.kind, r.user, Head(r.items))
    IN  /\ r.pc = "reget"
        /\ IF Cardinality(found) = 1
           THEN Step(wk, [r EXCEPT !.pc = "add",
                                   !.obj = (CHOOSE x \in found : TRUE).id], db)
           ELSE Step(wk, Finish(r, 500), db)

\* recipe.tags.add(tag_obj) / recipe.ingredient.add(ingredient_obj)
Add(wk) ==
    LET r == w[wk]
    IN  /\ r.pc = "add"
        /\ Step(wk, Loop([r EXCEPT !.items = Tail(@)]),
                m2m_add(db, r.kind, r.rid, r.obj))

\* the setattr loop and instance.save()
Save(wk) ==
    LET r == w[wk]
    IN  /\ r.pc = "save"
        /\ Step(wk, Finish(r, 200),
                SaveInstance(db, r.instance, r.vd))

\* A statement fails (the store is unreachable, a statement times out): the
\* exception leaves the serializer and the request ends with status 500.
Fail(wk) ==
    /\ w[wk].pc \in Running
    /\ Step(wk, Finish(w[wk], 500), db)

NextConc ==
    \/ \E wk \in Workers, u \in ConcUsers, p \in ConcCreatePayloads :
          ReceiveCreate(wk, u, p) /\ UNCHANGED pre
    \/ \E wk \in Workers, u \in ConcUsers, p \in ConcPatchPayloads :
          \E rid \in OwnRecipeIds(db, u) :
              ReceiveUpdate(wk, u, rid, p) /\ UNCHANGED pre
    \/ \E wk \in Workers : InsertRecipe(wk)
    \/ \E wk \in Workers : Clear(wk)
    \/ \E wk \in Workers : Get(wk)
    \/ \E wk \in Workers : Insert(wk)
    \/ \E wk \in Workers : Reget(wk)
    \/ \E wk \in Workers : Add(wk)
    \/ \E wk \in Workers : Save(wk)

\* Two workers, their statements interleaved.
SpecConc == Init /\ [][NextConc]_vars

NextFault ==
    \/ \E u \in Users, p \in ConcCreatePayloads :
          ReceiveCreate("w1", u, p) /\ pre' = db
    \/ \E u \in Users, p \in ConcPatchPayloads :
          \E rid \in OwnRecipeIds(db, u) :
              ReceiveUpdate("w1", u, rid, p) /\ pre' = db
    \/ InsertRecipe("w1")
    \/ Clear("w1")
    \/ Get("w1")
    \/ Insert("w1")
    \/ Add("w1")
    \/ Save("w1")
    \/ Fail("w1")

\* One worker, any of whose statements may fail.
SpecFault == Init /\ [][NextFault]_vars

\* ----------------------------------------------------------------- claims
NamesOf(l) == {l[i] : i \in DOMAIN l}
RowIds(d, kind) == {r.id : r \in d.rows[kind]}
OwnRows(d, kind, user, names) ==
    {r \in d.rows[kind] : r.user = user /\ r.name \in names}
Acted(op, status) ==
    pc = "done" /\ request.op = op /\ response.status = status
Patched == Acted("update", 200) /\ request.partial

\* C1: a PATCH leaves what its payload does not name unchanged: without the
\* tags (ingredient) key the recipe's tag (ingredient) set after the update
\* is the set before it, and a scalar field the payload does not name keeps
\* its value.
C1_PartialUpdateFrame ==
    Patched =>
        /\ \A k \in Kinds : k \notin request.payload.keys =>
              Related(db, k, request.id) = Related(pre, k, request.id)
        /\ \A f \in ScalarFields : f \notin request.payload.keys =>
              RecipeById(db, request.id)[f] = RecipeById(pre, request.id)[f]

\* C2: with the tags (ingredient) key in an update payload the association
\* set is replaced: afterwards the recipe holds exactly the requesting
\* user's rows whose names are in the list, none of the earlier ones that
\* the list does not name.
C2_UpdateReplaces ==
    (pc = "done" /\ request.op = "update" /\ response.status \notin {400, 404}) =>
        /\ response.status = 200
        /\ \A k \in Kinds : k \in request.payload.keys =>
              /\ Related(db, k, request.id) =
                   {r.id : r \in OwnRows(db, k, request.user,
                                         NamesOf(request.payload[k]))}
              /\ {RowById(db, k, o).name : o \in Related(db, k, request.id)} =
                   NamesOf(request.payload[k])

C2_Witness ==
    /\ Acted("update", 200)
    /\ \E k \in Kinds :
          /\ k \in request.payload.keys
          /\ request.payload[k] # << >>
          /\ Related(pre, k, request.id) \ Related(db, k, request.id) # {}
          /\ Related(db, k, request.id) \ Related(pre, k, request.id) # {}
          /\ \E r \in db.rows[k] :
                r.user # request.user /\ r.name \in NamesOf(request.payload[k])

\* C5: creating a recipe whose list names a tag (ingredient) the requesting
\* user already has creates no second row: the request succeeds, the row
\* that was there is the one attached, and it stays the only row of that
\* user and name.
C5_ExistingRowReused ==
    (pc = "done" /\ request.op = "create" /\ response.status # 400) =>
        \A k \in Kinds : \A n \in NamesOf(request.payload[k]) :
            \A r \in OwnRows(pre, k, request.user, {n}) :
                /\ response.status = 201
                /\ OwnRows(db, k, request.user, {n}) = {r}
                /\ r.id \in Related(db, k, response.id)

C5_Witness ==
    /\ Acted("create", 201)
    /\ \E k \in Kinds : \E n \in NamesOf(request.payload[k]) :
          /\ OwnRows(pre, k, request.user, {n}) # {}
          /\ NamesOf(request.payload[k]) # {n}

\* C6: in every state every tag and ingredient attached to a recipe is a
\* row of the recipe's owner; a user who names a tag that only another user
\* has gets a new row of their own attached, never the other user's row.
C6_AttachedRowsOwned ==
    /\ \A k \in Kinds : \A a \in db.m2m[k] :
          \E rc \in db.recipe : \E r \in db.rows[k] :
              rc.id = a[1] /\ r.id = a[2] /\ r.user = rc.user
    /\ (pc = "done" /\ response.status \in {200, 201}) =>
          \A k \in Kinds : k \in request.payload.keys =>
              \A n \in NamesOf(request.payload[k]) :
                  OwnRows(pre, k, request.user, {n}) = {} =>
                      \E r \in OwnRows(db, k, request.user, {n}) :
                          /\ r.id \notin RowIds(pre, k)
                          /\ r.id \in Related(db, k, response.id)

C6_Witness ==
    /\ pc = "done" /\ response.status \in {200, 201}
    /\ \E k \in Kinds : \E n \in NamesOf(request.payload[k]) :
          /\ k \in request.payload.keys
          /\ OwnRows(pre, k, request.user, {n}) = {}
          /\ \E r \in pre.rows[k] : r.name = n /\ r.user # request.user
          /\ \E r \in pre.rows[k] : r.name = n /\ \E a \in pre.m2m[k] : a[2] = r.id

\* C9: an update with an empty tags (ingredient) list leaves the recipe with
\* no tag (ingredient), keeps every Tag and Ingredient row, and leaves the
\* associations of the other recipes as they were.
C9_EmptyListClears ==
    Acted("update", 200) =>
        \A k \in Kinds :
            (k \in request.payload.keys /\ request.payload[k] = << >>) =>
                /\ Related(db, k, request.id) = {}
                /\ db.rows = pre.rows
                /\ \A j \in Kinds : \A rid \in RecipeIds(pre) \ {request.id} :
                      Related(db, j, rid) = Related(pre, j, rid)

C9_Witness ==
    /\ Acted("update", 200)
    /\ \E k \in Kinds :
          /\ k \in request.payload.keys /\ request.payload[k] = << >>
          /\ Related(pre, k, request.id) # {}
          /\ \E rid \in RecipeIds(db) \ {request.id} :
                Related(db, k, rid) \cap Related(pre, k, request.id) # {}

\* C10: a create with a tags (ingredient) list gives a recipe of the
\* requesting user attached to exactly the rows named, each the requesting
\* user's: a name the user had is reused, a name the user had not is
\* created, and nothing else is attached or created.
C10_CreateAttachesNamed ==
    (pc = "done" /\ request.op = "create" /\ response.status # 400) =>
        /\ response.status = 201
        /\ response.id \notin RecipeIds(pre)
        /\ response.id \in RecipeIds(db)
        /\ RecipeById(db, response.id).user = request.user
        /\ \A k \in Kinds :
              LET named == NamesOf(request.payload[k])
                  had   == OwnRows(pre, k, request.user, named)
                  got   == {RowById(db, k, o) : o \in Related(db, k, response.id)}
              IN  /\ Related(db, k, response.id) \subseteq RowIds(db, k)
                  /\ {r.name : r \in got} = named
                  /\ \A r \in got : r.user = request.user
                  /\ Cardinality(got) = Cardinality(named)
                  /\ had \subseteq got
                  /\ db.rows[k] \ pre.rows[k] = got \ had
                  /\ pre.rows[k] \subseteq db.rows[k]

C10_Witness ==
    /\ Acted("create", 201)
    /\ \E k \in Kinds :
          /\ Cardinality(Related(db, k, response.id)) = 2
          /\ Cardinality(db.rows[k] \ pre.rows[k]) = 1
          /\ \E r \in pre.rows[k] : r.user # request.user


\* The target of a retrieve, update or destroy request exists in the store d
\* and belongs to a user other than the requesting one.
ForeignTarget(d) ==
    /\ request.op \in {"retrieve", "update", "destroy"}
    /\ IF request.kind = "recipe"
       THEN \E r \in d.recipe : r.id = request.id /\ r.user # request.user
       ELSE \E r \in d.rows[request.kind] :
               r.id = request.id /\ r.user # request.user

\* C7: nothing of another user shows in a user's list or retrieve responses,
\* and a retrieve, update or delete of another user's id answers 404 and
\* leaves the store as it was.
C7_UserIsolation ==
    pc = "done" =>
        /\ \A rid \in response.body.recipe :
              /\ creator[rid] = request.user
              /\ \E r \in db.recipe : r.id = rid /\ r.user = request.user
        /\ \A k \in Kinds : \A oid \in response.body[k] :
              \E r \in db.rows[k] : r.id = oid /\ r.user = request.user
        /\ request.op = "list" =>
              /\ response.status = 200
              /\ request.kind = "recipe" =>
                    response.body.recipe =
                        {r.id : r \in {x \in db.recipe : x.user = request.user}}
              /\ request.kind \in Kinds =>
                    response.body[request.kind] =
                        {r.id : r \in {x \in db.rows[request.kind] :
                                          x.user = request.user}}
        /\ ForeignTarget(pre) => response.status = 404 /\ db = pre

C7_Witness ==
    /\ pc = "done"
    /\ ForeignTarget(pre)
    /\ request.op = "destroy"
    /\ request.kind = "tags"
    /\ \E a \in db.m2m["tags"] : a[2] = request.id
    /\ response.status = 404

C7_WitnessList ==
    /\ pc = "done"
    /\ request.op = "list"
    /\ request.kind = "recipe"
    /\ response.body.recipe # {}
    /\ response.body.tags # {}
    /\ \E r \in db.recipe : r.user # request.user
    /\ \E r \in db.rows["tags"] : r.user # request.user

C3_AllOrNothing == w["w1"].pc = "failed" => db = pre

Repeated(l) == {l[i] : i \in {j \in DOMAIN l : \E h \in DOMAIN l : h # j /\ l[h] = l[j]}}

\* C16: a create or update whose tags (ingredient) list repeats a name
\* succeeds, the requesting user has exactly one row of that name afterwards,
\* and the recipe holds exactly one association with it: the later occurrence
\* finds the row of the earlier one.
C16_RepeatedNameOnce ==
    (pc = "done" /\ request.op \in {"create", "update"}
                 /\ response.status \notin {400, 404}) =>
        \A k \in Kinds : k \in request.payload.keys =>
            \A n \in Repeated(request.payload[k]) :
                /\ response.status \in {200, 201}
                /\ Cardinality(OwnRows(db, k, request.user, {n})) = 1
                /\ \A r \in OwnRows(db, k, request.user, {n}) :
                      Cardinality({a \in db.m2m[k] :
                          a[1] = response.id /\ a[2] = r.id}) = 1

C16_Witness ==
    /\ pc = "done" /\ response.status \in {200, 201}
    /\ \E k \in Kinds :
          /\ k \in request.payload.keys
          /\ \E n \in Repeated(request.payload[k]) :
                /\ OwnRows(pre, k, request.user, {n}) = {}
                /\ OwnRows(db, k, request.user, {n}) # {}

\* The same update applied once more to the store the first one left.
Again == update(db, request.user, request.id, validated_data(request.payload))

\* C15: update is idempotent: applying the update that was just applied a
\* second time succeeds and leaves the recipes' fields, the association sets
\* and the Tag and Ingredient rows as the first application left them.
C15_UpdateIdempotent ==
    Acted("update", 200) =>
        /\ Again.ok
        /\ Again.db.recipe = db.recipe
        /\ Again.db.m2m = db.m2m
        /\ Again.db.rows = db.rows

C15_Witness ==
    /\ Acted("update", 200)
    /\ \E k \in Kinds :
          /\ db.rows[k] # pre.rows[k]
          /\ Related(db, k, request.id) # Related(pre, k, request.id)
          /\ Related(pre, k, request.id) # {}
          /\ Cardinality(Related(db, k, request.id)) > 1

\* Both workers have finished a PATCH of the same recipe, each with a tags
\* list.
BothUpdated ==
    /\ \A wk \in Workers :
          /\ w[wk].pc = "done" /\ w[wk].op = "update"
          /\ "tags" \in w[wk].vd.keys
    /\ w["w1"].rid = w["w2"].rid

\* The names of the tags a recipe holds.
TagNames(d, rid) == {r.name : r \in {x \in d.rows["tags"] :
                                        << rid, x.id >> \in d.m2m["tags"]}}

\* C14: two updates of one recipe with tags lists A and B that run at the
\* same time leave the recipe with the tags of A or with the tags of B.
C14_UpdatesSerializable ==
    BothUpdated =>
        \E wk \in Workers : TagNames(db, w[wk].rid) = NamesOf(w[wk].vd.tags)

\* The recipe holds one of the ids, or the filter names none.
Passes(kind, rid, ids) ==
    ids = {} \/ \E a \in db.m2m[kind] : a[1] = rid /\ a[2] \in ids

\* The recipes a filtered list has to show: the requesting user's recipes
\* that pass the tags filter and the ingredients filter.
Wanted ==
    {r.id : r \in {x \in db.recipe :
        /\ x.user = request.user
        /\ Passes("tags", x.id, request.filter.tags)
        /\ Passes("ingredient", x.id, request.filter.ingredient)}}

\* C11: the recipe list filtered by tag ids and ingredient ids shows exactly
\* the requesting user's recipes that hold at least one of the tags named and
\* at least one of the ingredients named (a filter that is not given passes
\* every recipe), and shows each of them once.
C11_RecipeFilter ==
    (pc = "done" /\ request.op = "list" /\ request.kind = "recipe") =>
        /\ response.status = 200
        /\ response.body.recipe = Wanted
        /\ response.body.len = Cardinality(Wanted)
        /\ db = pre

C11_Witness ==
    /\ pc = "done" /\ request.op = "list" /\ request.kind = "recipe"
    /\ request.filter.ingredient # {}
    /\ \E rid \in response.body.recipe :
          Cardinality({a \in db.m2m["tags"] :
              a[1] = rid /\ a[2] \in request.filter.tags}) = 2
    /\ \E r \in db.recipe :
          /\ r.user = request.user
          /\ r.id \notin response.body.recipe
          /\ Passes("tags", r.id, request.filter.tags)

\* The rows an assigned_only list has to show: the requesting user's rows of
\* the kind that some recipe holds.
Assigned ==
    {r.id : r \in {x \in db.rows[request.kind] :
        /\ x.user = request.user
        /\ \E a \in db.m2m[request.kind] : a[2] = x.id}}

\* C12: the tag (ingredient) list with assigned_only=1 shows exactly the
\* requesting user's tags (ingredients) that at least one recipe holds, each
\* once however many recipes hold it, and none that no recipe holds.
C12_AssignedOnly ==
    (pc = "done" /\ request.op = "list" /\ request.kind \in Kinds
                 /\ request.assigned_only) =>
        /\ response.status = 200
        /\ response.body[request.kind] = Assigned
        /\ response.body.len = Cardinality(Assigned)
        /\ db = pre

C12_Witness ==
    /\ pc = "done" /\ request.op = "list" /\ request.kind \in Kinds
    /\ request.assigned_only
    /\ response.body[request.kind] # {}
    /\ \E r \in db.rows[request.kind] :
          /\ r.user = request.user
          /\ r.id \notin response.body[request.kind]

\* An assigned_only list with a row that two recipes hold.
C12_WitnessTwice ==
    /\ pc = "done" /\ request.op = "list" /\ request.kind \in Kinds
    /\ request.assigned_only
    /\ \E oid \in response.body[request.kind] :
          Cardinality({a \in db.m2m[request.kind] : a[2] = oid}) = 2

\* C13: a request without credentials to any recipe, tag or ingredient
\* endpoint is answered 401 and leaves the store as it was.
C13_Unauthenticated ==
    (pc = "done" /\ request.user \notin Users) =>
        /\ response.status = 401
        /\ response.body = NoBody
        /\ db = pre

C13_Witness ==
    /\ pc = "done" /\ request.user \notin Users
    /\ request.op = "destroy" /\ request.kind \in Kinds
    /\ \E a \in db.m2m[request.kind] : a[2] = request.id
====
